---- MODULE Spec2Model ----
(***************************************************************************)
(* Model of the elevation <-> RGB codec of rio_gsidem/encoders.py:         *)
(* data_to_rgb (encode) and _decode.                                       *)
(*                                                                         *)
(* Numbers.  An elevation sample is a float64.  A finite sample is held    *)
(* as the integer h of hundredths it denotes (123.45 is h = 12345); the    *)
(* three non-finite floats are separate kinds.  The scaled value           *)
(* x = value / 0.01 is held as its integer part: every later step of       *)
(* data_to_rgb (comparison with the integer clamp bounds, floor division,  *)
(* subtraction of an integer multiple, truncation of a non-negative        *)
(* value) depends on x only through that integer part.  IEEE division      *)
(* does not always return the exact quotient: 0.29 / 0.01 is               *)
(* 28.999999999999996, whose integer part is 28 (see QuotientBelow).       *)
(* A decoded value is held exactly as h hundredths plus f ten-thousandths. *)
(* Integer array arithmetic follows NumPy's value-based promotion          *)
(* (uint8 * 65536 is computed in a 32-bit type, so it does not wrap).      *)
(***************************************************************************)
EXTENDS Integers, Sequences, FiniteSets

VARIABLES data, nodata, rgb, decoded, pc

vars == <<data, nodata, rgb, decoded, pc>>

(* ------------------------------ bounds --------------------------------- *)

\* A grid of the model has at most MaxCells cells (rows * cols).
MaxCells == 2

(* ----------------------------- float values ---------------------------- *)

Fin(h) == [k |-> "fin", h |-> h]
NaN == [k |-> "nan", h |-> 0]
PosInf == [k |-> "pinf", h |-> 0]
NegInf == [k |-> "ninf", h |-> 0]
\* nodata=None
None == [k |-> "none", h |-> 0]

\* u = 0.01: hundredths per elevation unit.
Scale == 100

\* The default nodata sentinel, -9999, in hundredths.
DefaultNodata == Fin(-9999 * Scale)

\* The reserved nodata triple.
NodataR == 128
NodataRGB == <<NodataR, 0, 0>>

MaxCode == 2 ^ 24 - 1

NoGrid == <<>>

(* ------------------------------ inputs --------------------------------- *)

\* Elevation samples (hundredths): zero, an inexact quotient, the spec's
\* examples 123.45 and -500.00, the default sentinel, the codes around 2^23,
\* a value whose code is above 2^23, values above the 24-bit span, a value
\* above 256^3 elevation units, and the non-finite floats.
Samples ==
    { Fin(0), Fin(29), Fin(12345), Fin(-50000), Fin(-999900),
      Fin(8388607), Fin(8388608), Fin(16727216), Fin(20000000),
      Fin(1677721700), NaN, PosInf, NegInf }

NodataArgs == { DefaultNodata, Fin(0), None }

Pixels ==
    { <<128, 0, 0>>, <<0, 48, 57>>, <<255, 60, 176>>, <<128, 0, 1>>,
      <<127, 255, 255>>, <<0, 0, 0>>, <<255, 255, 255>> }

Shapes == { s \in (1..MaxCells) \X (1..MaxCells) : s[1] * s[2] <= MaxCells }

Grids == UNION { [1..s[1] -> [1..s[2] -> Samples]] : s \in Shapes }

Rows(g) == Len(g)
Cols(g) == Len(g[1])

\* The 3 x rows x cols array holding pixel px[i][j] at position (i, j).
ChannelMajor(px) ==
    [c \in 1..3 |-> [i \in 1..Rows(px) |-> [j \in 1..Cols(px) |-> px[i][j][c]]]]

PixelGrids ==
    UNION { { ChannelMajor(px) : px \in [1..s[1] -> [1..s[2] -> Pixels]] } :
            s \in Shapes }

\* The pixel of an encoded grid at (i, j).
PixelAt(g, i, j) == <<g[1][i][j], g[2][i][j], g[3][i][j]>>

(* ---------------------------- data_to_rgb ------------------------------ *)

\* data == nodata, elementwise; NaN compares unequal to everything.
EqualsNodata(s, nd) ==
    /\ nd.k # "none"
    /\ s.k # "nan"
    /\ nd.k # "nan"
    /\ s = nd

\* np.where(data == nodata, np.nan, data), skipped when nodata is None.
ReplaceNodata(g, nd) ==
    [i \in 1..Rows(g) |-> [j \in 1..Cols(g) |->
        IF EqualsNodata(g[i][j], nd) THEN NaN ELSE g[i][j]]]

CellsOf(g) == { g[i][j] : i \in 1..Rows(g), j \in 1..Cols(g) }

SetMax(S) == CHOOSE m \in S : \A n \in S : n <= m
SetMin(S) == CHOOSE m \in S : \A n \in S : m <= n

FiniteOf(g) == { s.h : s \in { t \in CellsOf(g) : t.k = "fin" } }

\* np.nanmax: the largest non-NaN element, NaN when every element is NaN.
NanMax(g) ==
    IF PosInf \in CellsOf(g) THEN PosInf
    ELSE IF FiniteOf(g) # {} THEN Fin(SetMax(FiniteOf(g)))
    ELSE IF NegInf \in CellsOf(g) THEN NegInf
    ELSE NaN

\* np.nanmin: the smallest non-NaN element, NaN when every element is NaN.
NanMin(g) ==
    IF NegInf \in CellsOf(g) THEN NegInf
    ELSE IF FiniteOf(g) # {} THEN Fin(SetMin(FiniteOf(g)))
    ELSE IF PosInf \in CellsOf(g) THEN PosInf
    ELSE NaN

\* Float subtraction a - b for a >= b (or NaN operands).
FloatSub(a, b) ==
    IF a.k = "nan" \/ b.k = "nan" THEN NaN
    ELSE IF a.k = "fin" /\ b.k = "fin" THEN Fin(a.h - b.h)
    ELSE IF a.k = b.k THEN NaN
    ELSE PosInf

\* datarange = np.nanmax(data) - np.nanmin(data), in elevation units
\* (hundredths here): taken before any scaling by 1/u.
Datarange(g) == FloatSub(NanMax(g), NanMin(g))

\* datarange > 256 ** 3; a comparison with NaN is false.
RangeExceeded(dr) ==
    \/ dr.k = "pinf"
    \/ dr.k = "fin" /\ dr.h > (256 ^ 3) * Scale

\* Finite samples whose float64 quotient value / 0.01 falls just below the
\* integer (0.29 / 0.01 = 28.999999999999996).
QuotientBelow == { 29 }

\* x[valid] = data[valid] / u, as the integer part of the float64 quotient.
Divide(s) ==
    IF s.k = "fin"
    THEN Fin(IF s.h \in QuotientBelow THEN s.h - 1 ELSE s.h)
    ELSE s

\* np.nan_to_num(x, nan=0, posinf=2 ** 24 - 1, neginf=0)
NanToNum(x) ==
    IF x.k = "nan" THEN 0
    ELSE IF x.k = "pinf" THEN MaxCode
    ELSE IF x.k = "ninf" THEN 0
    ELSE x.h

\* x[x < 0] = 0 ; x[x > 2 ** 24 - 1] = 2 ** 24 - 1
Clamp(n) ==
    IF n < 0 THEN 0
    ELSE IF n > MaxCode THEN MaxCode
    ELSE n

\* The clamped scaled value of a valid sample.
Scaled(s) == Clamp(NanToNum(Divide(s)))

\* .astype(np.uint8) of a non-negative integer.  (The earlier
\* .astype(np.uint32) acts on values in [0, 2^24 - 1], which it keeps.)
AsUint8(n) == n % 256

SplitReversed(x) ==
    LET b == x \div (2 ^ 16)
        x1 == x - b * (2 ^ 16)
        g == x1 \div (2 ^ 8)
        x2 == x1 - g * (2 ^ 8)
        r == x2
    IN  <<AsUint8(r), AsUint8(g), AsUint8(b)>>

\* r = x // 2^16; x -= r * 2^16; g = x // 2^8; x -= g * 2^8; b = x,
\* each then cast to uint8.
Split(x) ==
    LET r == x \div (2 ^ 16)
        x1 == x - r * (2 ^ 16)
        g == x1 \div (2 ^ 8)
        x2 == x1 - g * (2 ^ 8)
        b == x2
    IN  <<AsUint8(r), AsUint8(g), AsUint8(b)>>

NoOverride(px, isnan) == px

\* rgb[0][nan_mask] = 128; rgb[1][nan_mask] = 0; rgb[2][nan_mask] = 0
NodataOverride(px, isnan) == IF isnan THEN NodataRGB ELSE px

\* The pixel of one sample of the NaN-substituted grid.  r, g and b start
\* at zero and are assigned at valid positions only.
EncodePixel(s) ==
    NodataOverride(IF s.k = "nan" THEN <<0, 0, 0>> ELSE Split(Scaled(s)),
                   s.k = "nan")

EncodeGridPixelMajor(g) ==
    [i \in 1..Rows(g) |-> [j \in 1..Cols(g) |-> EncodePixel(g[i][j])]]

\* rgb = np.zeros((3, rows, cols), dtype=np.uint8), then filled per channel.
EncodeGrid(g) ==
    [c \in 1..3 |-> [i \in 1..Rows(g) |-> [j \in 1..Cols(g) |->
        EncodePixel(g[i][j])[c]]]]

(* ------------------------------- _decode ------------------------------- *)

\* A decoded float: h hundredths plus f ten-thousandths, 0 <= f < 100.
Val(h, f) == [h |-> h, f |-> f]

\* (rgb[0] * 2 ** 16 + rgb[1] * 2 ** 8 + rgb[2])
Code(px) == px[1] * (2 ^ 16) + px[2] * (2 ^ 8) + px[3]

\* nodata_mask = (rgb[0] == 128) & (rgb[1] == 0) & (rgb[2] == 0)
NodataMask(px) == px[1] = NodataR /\ px[2] = 0 /\ px[3] = 0

\* overflow_mask = data > 2 ** 23, data being the value already multiplied
\* by u (elevation units).
OverflowMask(v) ==
    \/ v.h > (2 ^ 23) * Scale
    \/ v.h = (2 ^ 23) * Scale /\ v.f > 0

\* (data - 2 ** 24) * u, applied to the value already multiplied by u.
Unwrap(v) ==
    Val((v.h - (2 ^ 24) * Scale) \div Scale, (v.h - (2 ^ 24) * Scale) % Scale)

DecodePixelNoMask(px) ==
    LET d0 == Val(Code(px), 0)
    IN  IF OverflowMask(d0) THEN Unwrap(d0) ELSE d0

\* data = code * u; data[nodata_mask] = -9999; then the overflow step.
DecodePixel(px) ==
    LET d0 == Val(Code(px), 0)
        d1 == IF NodataMask(px) THEN Val(-9999 * Scale, 0) ELSE d0
    IN  IF OverflowMask(d1) THEN Unwrap(d1) ELSE d1

DecodeGrid(g) ==
    [i \in 1..Len(g[1]) |-> [j \in 1..Len(g[1][1]) |->
        DecodePixel(PixelAt(g, i, j))]]

(* --------------------------- state machine ----------------------------- *)

\* Either a grid about to be encoded (and then decoded again), or an
\* arbitrary encoded grid about to be decoded.
Init ==
    /\ decoded = NoGrid
    /\ \/ /\ pc = "encode"
          /\ data \in Grids
          /\ nodata \in NodataArgs
          /\ rgb = NoGrid
       \/ /\ pc = "decode"
          /\ data = NoGrid
          /\ nodata = None
          /\ rgb \in PixelGrids

\* data_to_rgb(data, nodata): raises ValueError or returns rgb.
DataToRgb ==
    /\ pc = "encode"
    /\ LET d == ReplaceNodata(data, nodata)
       IN  IF RangeExceeded(Datarange(d))
           THEN /\ pc' = "raised"
                /\ rgb' = NoGrid
           ELSE /\ pc' = "decode"
                /\ rgb' = EncodeGrid(d)
    /\ UNCHANGED <<data, nodata, decoded>>

\* _decode(rgb)
Decode ==
    /\ pc = "decode"
    /\ decoded' = DecodeGrid(rgb)
    /\ pc' = "done"
    /\ UNCHANGED <<data, nodata, rgb>>

Next == DataToRgb \/ Decode

Spec == Init /\ [][Next]_vars

(* ------------------------------ properties ----------------------------- *)

\* data_to_rgb was called on data (it returned or raised).
Called == data # NoGrid /\ pc # "encode"

\* data_to_rgb returned rgb for data.
Returned == data # NoGrid /\ pc \in {"decode", "done"}

Positions(g) == (1..Rows(g)) \X (1..Cols(g))

\* The sample at p counts as an elevation (it is not the configured nodata).
IsValidAt(p) == ~EqualsNodata(data[p[1]][p[2]], nodata)

\* Base-256 digits of c, most significant first.
Base256(c) == <<c \div 65536, (c % 65536) \div 256, c % 256>>

\* |v - h/100| <= 0.01
WithinQuantum(v, h) ==
    /\ v.h - h >= -1
    /\ \/ v.h - h < 1
       \/ v.h - h = 1 /\ v.f = 0

Sentinel == Val(-9999 * Scale, 0)

\* C1: every valid elevation v with |v| < 2^23 * 0.01, negative ones
\* included, comes back from _decode(data_to_rgb(.)) within 0.01 of v.
RoundTripWithinQuantization ==
    (data # NoGrid /\ pc = "done") =>
        \A p \in Positions(data) :
            LET s == data[p[1]][p[2]]
            IN  (/\ s.k = "fin"
                 /\ s.h < 2 ^ 23
                 /\ s.h > 0 - 2 ^ 23
                 /\ s # DefaultNodata
                 /\ IsValidAt(p))
                => WithinQuantum(decoded[p[1]][p[2]], s.h)

\* C2: with a nodata value configured, every position whose sample equals
\* it is emitted by data_to_rgb as exactly (128, 0, 0).
NodataEncodedAsReserved ==
    (Returned /\ nodata.k # "none") =>
        \A p \in Positions(data) :
            EqualsNodata(data[p[1]][p[2]], nodata)
                => PixelAt(rgb, p[1], p[2]) = <<128, 0, 0>>

NodataEncodedWitness ==
    /\ Returned
    /\ nodata = DefaultNodata
    /\ \E p, q \in Positions(data) :
          /\ data[p[1]][p[2]] = DefaultNodata
          /\ PixelAt(rgb, p[1], p[2]) = <<128, 0, 0>>
          /\ data[q[1]][q[2]] = Fin(12345)
          /\ PixelAt(rgb, q[1], q[2]) = <<0, 48, 57>>

\* C3: _decode returns exactly -9999 for a pixel equal to (128, 0, 0),
\* the overflow step leaving it alone, and for no other pixel.
NodataDecodedAsSentinel ==
    pc = "done" =>
        \A p \in Positions(decoded) :
            (PixelAt(rgb, p[1], p[2]) = <<128, 0, 0>>)
                <=> (decoded[p[1]][p[2]] = Sentinel)

NodataDecodedWitness ==
    /\ pc = "done"
    /\ \E p, q \in Positions(decoded) :
          /\ PixelAt(rgb, p[1], p[2]) = <<128, 0, 0>>
          /\ decoded[p[1]][p[2]] = Sentinel
          /\ PixelAt(rgb, q[1], q[2]) = <<255, 60, 176>>
          /\ decoded[q[1]][q[2]] # Sentinel

\* The valid samples' max - min, taken after scaling by 1/0.01, is above
\* 256^3.
ScaledRangeExceeded ==
    LET dr == Datarange(ReplaceNodata(data, nodata))
    IN  \/ dr.k = "pinf"
        \/ dr.k = "fin" /\ dr.h > 256 ^ 3

\* C4: a grid whose valid samples' scaled max - min is above 256^3 makes
\* data_to_rgb fail with the range error, no output grid being produced.
RangeRejection ==
    (Called /\ ScaledRangeExceeded) => (pc = "raised" /\ rgb = NoGrid)

\* The scaled value of s lies outside [0, 2^24 - 1]: s is an infinity, or
\* finite and below 0 or above 2^24 - 1.  (NaN is left out: data_to_rgb
\* takes a NaN sample for a missing one.)
OutOfSpan(s) ==
    \/ s.k \in {"pinf", "ninf"}
    \/ s.k = "fin" /\ s.h < 0
    \/ s.k = "fin" /\ s.h > MaxCode

\* The finite valid samples alone stay within the range check.
FiniteRangeAccepted ==
    LET f == FiniteOf(ReplaceNodata(data, nodata))
    IN  f = {} \/ SetMax(f) - SetMin(f) <= (256 ^ 3) * Scale

\* C5: a valid sample whose scaled value is outside [0, 2^24 - 1], an
\* infinite one next to finite samples included, raises no error and is
\* emitted as a clamp boundary, (0, 0, 0) or (255, 255, 255).
ClampingNotRejection ==
    (Called /\ FiniteRangeAccepted) =>
        \A p \in Positions(data) :
            (OutOfSpan(data[p[1]][p[2]]) /\ IsValidAt(p))
                => /\ pc # "raised"
                   /\ PixelAt(rgb, p[1], p[2]) \in {<<0, 0, 0>>, <<255, 255, 255>>}

\* C6: a finite, non-nodata sample whose scaled value is within
\* [0, 2^24 - 1] is never emitted as (128, 0, 0); that triple appears only
\* where the sample equals nodata.
ReservedTripleExclusive ==
    Returned =>
        \A p \in Positions(data) :
            LET s == data[p[1]][p[2]]
            IN  (s.k = "fin" /\ IsValidAt(p) /\ s.h >= 0 /\ s.h <= MaxCode)
                    => PixelAt(rgb, p[1], p[2]) # <<128, 0, 0>>

\* C7: whenever data_to_rgb returns, the output has shape (3, rows, cols)
\* and every channel of every pixel is an integer in [0, 255].
ChannelRangeAndShape ==
    Returned =>
        /\ Len(rgb) = 3
        /\ \A c \in 1..3 :
              /\ Len(rgb[c]) = Rows(data)
              /\ \A i \in 1..Rows(data) :
                    /\ Len(rgb[c][i]) = Cols(data)
                    /\ \A j \in 1..Cols(data) : rgb[c][i][j] \in 0..255

ChannelRangeWitness ==
    /\ Returned
    /\ Rows(data) = 2
    /\ data[1][1] = Fin(20000000)
    /\ data[2][1] = Fin(16727216)
    /\ PixelAt(rgb, 1, 1) = <<255, 255, 255>>

\* C8: a valid sample with scaled value x, -2^23 < x < 0, is emitted as
\* the triple of the code 2^24 + x; -500.00 gives (255, 60, 176).
EncoderWraparound ==
    Returned =>
        \A p \in Positions(data) :
            LET s == data[p[1]][p[2]]
            IN  (s.k = "fin" /\ IsValidAt(p) /\ s.h < 0 /\ s.h > 0 - 2 ^ 23)
                    => PixelAt(rgb, p[1], p[2]) = Base256(2 ^ 24 + s.h)

\* C9: a pixel other than (128, 0, 0) decodes to (code - 2^24) * 0.01 when
\* its code is above 2^23, and to code * 0.01 otherwise.
DecoderSymmetricUnwrap ==
    pc = "done" =>
        \A p \in Positions(decoded) :
            LET px == PixelAt(rgb, p[1], p[2])
                code == px[1] * 65536 + px[2] * 256 + px[3]
            IN  px # <<128, 0, 0>> =>
                    decoded[p[1]][p[2]] =
                        IF code > 2 ^ 23 THEN Val(code - 2 ^ 24, 0)
                        ELSE Val(code, 0)

\* C10: for a valid sample with clamped integer scaled value c, the emitted
\* triple is the base-256 decomposition of c, most significant byte first;
\* 123.45 gives (0, 48, 57).
ChannelSplitBase256 ==
    Returned =>
        \A p \in Positions(data) :
            LET s == ReplaceNodata(data, nodata)[p[1]][p[2]]
                px == PixelAt(rgb, p[1], p[2])
            IN  s.k # "nan" =>
                    /\ px = Base256(Scaled(s))
                    /\ px[1] * 65536 + px[2] * 256 + px[3] = Scaled(s)
                    /\ s = Fin(12345) => px = <<0, 48, 57>>

ChannelSplitWitness ==
    /\ Returned
    /\ \E p, q \in Positions(data) :
          /\ IsValidAt(p)
          /\ data[p[1]][p[2]] = Fin(12345)
          /\ PixelAt(rgb, p[1], p[2]) = <<0, 48, 57>>
          /\ IsValidAt(q)
          /\ data[q[1]][q[2]] = Fin(16727216)
          /\ PixelAt(rgb, q[1], q[2]) = <<255, 60, 176>>

====
